---- MODULE Spec2Model ----
(***************************************************************************)
(* Model of the client-side game store (stores/game.js, kept in            *)
(* src/unnamed/part_002 lines 1-411): WebSocket connection handling,       *)
(* message dispatch, the animation event sequencer (processNextEvent) and  *)
(* the move gate (makeChoice).                                             *)
(*                                                                         *)
(* Time is the value of Date.now() in milliseconds.  setTimeout callbacks  *)
(* are kept in `timers` (creation order), requestAnimationFrame callbacks  *)
(* in `rafQueue`.  Every handler runs to completion: one action each.      *)
(***************************************************************************)
EXTENDS Integers, Sequences, FiniteSets, TLC

\* ---------------------------------------------------------------- bounds
T0 == 1000          \* Date.now() when the store is constructed
Step == 100         \* granularity of the clock, ms
MaxElapsed == 300   \* the clock is stepped up to T0 + MaxElapsed
MaxBatchLen == 2    \* longest game_events batch (SpecSeq)
MaxBatches == 2     \* non-empty game_events batches delivered (SpecSeq)
GateBatchLen == 2   \* longest game_events batch (Spec, SpecConn)
GateBatches == 1    \* non-empty batches delivered (Spec, SpecConn)
MaxSent == 2        \* frames the client sends (SpecConn)
WideSent == 1       \* frames the client sends (Spec)
WideElapsed == 0    \* ms during which frames arrive and clicks happen (Spec)
ConnElapsed == 100  \* ms during which server frames arrive (SpecConn)
SessElapsed == 100  \* ms during which session frames arrive (SpecSession)
LinkElapsed == 100  \* ms during which the user and the network act (SpecLink)
BatchElapsed == 0   \* ms during which clicks and batches come (SpecBatch)
PlayElapsed == 100  \* ms during which frames arrive (SpecPlay)
CmdElapsed == 100   \* ms during which commands are called (SpecCmd)
CmdSent == 2        \* frames sent (SpecCmd)
RetryElapsed == 300 \* ms during which the user may leave (SpecRetry)
MaxSockets == 2     \* WebSocket objects created

\* ------------------------------------------------------ program constants
DebounceMs == 300       \* makeChoice: now - lastMoveTime < 300
PacingFloorMs == 200    \* processNextEvent: Math.max(200, ...)
MsPerSecond == 1000     \* processNextEvent: (nextTime - currentTime) * 1000
ExplosionDwellMs == 2000
SpreadDwellMs == 1500
ReconnectDelayMs == 3000

NULL == "null"

VARIABLES
  \* --- store state (state: () => ({...}))
  roomCode, gameType, players, creator, gameStarted, currentPlayer, choices,
  turn, round, maxTurns, turnTime, winner, gameEnded, ws, connectionStatus,
  canRestart, board, playerColors, explosions, queuedEvents, processingEvents,
  lastMoveTime, moveInProgress, currentExplosionIndex,
  \* --- environment of the store
  now,         \* Date.now()
  timers,      \* pending setTimeout callbacks, in creation order
  rafQueue,    \* pending requestAnimationFrame callbacks (the events they show)
  oldSockets,  \* replaced/exited sockets whose close event is still to come
  sent,        \* frames handed to ws.send, in order
  \* --- observations of what the handlers did
  sockets,     \* number of WebSocket objects created so far
  batches,     \* number of non-empty game_events batches received so far
  intact,      \* no next_turn/error/game_ended since the last batch arrived
  voided,      \* the cancelled events the sequencer still holds: [turn, ended]
  lastBatch,   \* number of events in the last non-empty batch
  lastShown,   \* id of the last event an animation-frame callback applied
  lastTake,    \* the event processNextEvent took last, and currentTimeMs
  lastCall,    \* the last makeChoice call: its time and what became of it
  releasedBy,  \* type of the message that last released a held move lock
  liveSockets, \* sockets the store created that are connecting or open
  lastClose,   \* the last close event handled by onclose
  ignored      \* type of the last frame no case of the switch acted on

sessionVars == <<roomCode, gameType, players, creator, gameStarted,
                 currentPlayer, choices, turn, round, maxTurns, turnTime,
                 winner, gameEnded, canRestart, board, playerColors>>
connVars == <<ws, connectionStatus, oldSockets, sockets, liveSockets,
              lastClose>>
seqVars == <<explosions, queuedEvents, processingEvents, currentExplosionIndex,
             timers, rafQueue, batches, intact, voided, lastBatch, lastShown,
             lastTake>>
gateVars == <<lastMoveTime, moveInProgress, sent, lastCall, releasedBy,
              ignored>>
vars == <<sessionVars, connVars, seqVars, gateVars, now>>

Max(a, b) == IF a >= b THEN a ELSE b

\* An optional list-valued message field: absent, or present with a value.
Absent == [has |-> FALSE, val |-> <<>>]
Some(v) == [has |-> TRUE, val |-> v]
\* `x || d` for such a field
OrElse(x, d) == IF x.has THEN x.val ELSE d
\* `x || d` for an optional string-valued field (NULL when absent)
StrOrElse(x, d) == IF x = NULL THEN d ELSE x

\* No event taken yet / no makeChoice call made yet.
NoTake == [taken |-> FALSE, id |-> <<0, 0>>, at |-> 0]
NoCall == [made |-> FALSE, at |-> 0, result |-> "none", locked |-> FALSE,
           sentAt |-> 0]
\* No close event handled yet.  n counts the close events, `room` tells
\* whether roomCode was set when the last one was handled, `cleared` whether
\* exitGame has cleared roomCode since the last close that scheduled a
\* reconnection.
NoClose == [n |-> 0, code |-> 0, room |-> FALSE, cleared |-> FALSE]
\* The ghost `voided` while no cancelled event is pending: the events a
\* next_turn or error message (turn), or a game_ended message (ended), has
\* cancelled and that the sequencer still holds.
NoVoid == [turn |-> {}, ended |-> {}]

Init ==
  /\ roomCode = NULL /\ gameType = "number_picker" /\ players = <<>>
  /\ creator = NULL /\ gameStarted = FALSE /\ currentPlayer = NULL
  /\ choices = <<>> /\ turn = 0 /\ round = 0 /\ maxTurns = 5 /\ turnTime = 10
  /\ winner = NULL /\ gameEnded = FALSE /\ ws = NULL
  /\ connectionStatus = "disconnected" /\ canRestart = FALSE
  /\ board = "empty" /\ playerColors = "none" /\ explosions = <<>>
  /\ queuedEvents = <<>> /\ processingEvents = FALSE /\ lastMoveTime = 0
  /\ moveInProgress = FALSE /\ currentExplosionIndex = 0
  /\ now = T0 /\ timers = <<>> /\ rafQueue = <<>> /\ oldSockets = 0
  /\ sent = <<>> /\ sockets = 0 /\ batches = 0 /\ intact = TRUE /\ voided = NoVoid
  /\ lastBatch = 0 /\ lastShown = <<0, 0>> /\ lastTake = NoTake
  /\ lastCall = NoCall /\ releasedBy = NULL
  /\ liveSockets = 0 /\ lastClose = NoClose /\ ignored = "none"

\* ------------------------------------------------------------- messages
\* An animation event of a game_events batch.  `id` stands for the payload
\* (x, y, color / from_x, ..., color); `time` is the server time in seconds,
\* `board` the optional board snapshot.
Ev(b, i, type, time) ==
  [type |-> type, time |-> time, board |-> NULL, id |-> <<b, i>>]

EventTypes == {"explosion", "spread", "add_ball"}

\* Two batch patterns: 1 = explosion/spread alternating with equal server
\* times; 2 = spread/add_ball/explosion with times 0, 1, 0, 1 s (a delta above
\* the floor, then a non-monotonic one).
TypeOf(p, i) ==
  IF p = 1 THEN (IF i % 2 = 1 THEN "explosion" ELSE "spread")
  ELSE (IF i % 3 = 1 THEN "spread" ELSE IF i % 3 = 2 THEN "add_ball"
        ELSE "explosion")
TimeOf(p, i) == IF p = 1 THEN 0 ELSE IF i % 2 = 0 THEN 1 ELSE 0
Patterns == {1, 2}
BatchOf(b, n, p) == [i \in 1..n |-> Ev(b, i, TypeOf(p, i), TimeOf(p, i))]

\* Elements a server-supplied `explosions` list may carry.
X1 == [type |-> "explosion", id |-> <<0, 1>>]
X2 == [type |-> "spread", id |-> <<0, 2>>]
ExplosionLists == {Absent, Some(<<>>), Some(<<X1>>), Some(<<X1, X2>>)}

Boards == {NULL, "B1"}
Usernames == {"alice", "bob"}
Me == "alice"       \* localStorage.getItem('username')
Choices == {2}
CloseCodes == {1000, 1001, 1005, 1006}
RoomCodes == {"AB12CD"}

RoomStateMsgs ==
  { [type |-> "room_state",
     room |-> [players |-> <<"alice", "bob">>, creator |-> c,
               game_started |-> gs, game_type |-> gt],
     game_ended |-> ge] :
    c \in Usernames, gs \in BOOLEAN, gt \in {NULL, "chain_reaction"},
    ge \in {[has |-> FALSE, winner |-> NULL, can_restart |-> FALSE],
            [has |-> TRUE, winner |-> "bob", can_restart |-> TRUE]} }
PlayerMsgs ==
  { [type |-> "player_joined", players |-> <<"alice", "bob">>],
    [type |-> "player_left", players |-> <<"bob">>, creator |-> "bob"] }
GameStartedMsgs ==
  { [type |-> "game_started", current_player |-> "alice",
     choices |-> <<-2, -1, 1, 2>>, turn |-> 1, round |-> 0,
     max_turns |-> 5, turn_time |-> 10, board |-> b,
     player_colors |-> NULL, explosions |-> x] :
    b \in Boards, x \in ExplosionLists }
NextTurnMsgs ==
  { [type |-> "next_turn", current_player |-> "bob",
     choices |-> <<-1, 1>>, turn |-> 2, round |-> 0,
     board |-> b, explosions |-> x] :
    b \in Boards, x \in ExplosionLists }
\* events: absent, or a batch of n events of pattern p (n = 0: empty batch)
GameEventsMsgs ==
  { [type |-> "game_events", events |-> e, board |-> b] :
    e \in {[has |-> FALSE, n |-> 0, p |-> 1]} \cup
          { [has |-> TRUE, n |-> n, p |-> p] :
            n \in 0..MaxBatchLen, p \in Patterns },
    b \in Boards }
\* game_events messages whose board, if any, differs from the one in play
BoardEventsMsgs ==
  { [type |-> "game_events", events |-> e, board |-> b] :
    e \in {[has |-> FALSE, n |-> 0, p |-> 1]} \cup
          { [has |-> TRUE, n |-> n, p |-> p] :
            n \in 0..MaxBatchLen, p \in Patterns },
    b \in {NULL, "B2"} }
AddBallMsgs == { [type |-> "add_ball", board |-> b] : b \in Boards }
ExplosionMsgs == { [type |-> "explosion", id |-> <<0, 3>>] }
SpreadMsgs == { [type |-> "spread", id |-> <<0, 4>>] }
GameOverMsgs == { [type |-> "game_over", winner |-> "bob"] }
AutoChoiceMsgs == { [type |-> "auto_choice"] }
GameEndedMsgs ==
  { [type |-> "game_ended", winner |-> "bob", can_restart |-> TRUE,
     board |-> b, player_colors |-> NULL] : b \in Boards }
ErrorMsgs == { [type |-> "error", message |-> "Invalid move"] }
\* A property the frame does not have reads as undefined.
Undefined == "undefined"
\* Frames that lack a field their handler reads: {"type": "game_over"}
MalformedMsgs == { [type |-> "game_over", winner |-> Undefined] }
UnknownMsgs == { [type |-> "ping"] }

\* ------------------------------------------------------------ sequencer
\* Math.max(200, (nextTime - currentTime) * 1000), `time || 0` being the
\* held value (an absent time is held as 0).
PacingDelay(event, nextEvent) ==
  Max(PacingFloorMs, (nextEvent.time - event.time) * MsPerSecond)

\* The part of the state processNextEvent reads and writes.
SeqState ==
  [processingEvents |-> processingEvents, queuedEvents |-> queuedEvents,
   board |-> board, explosions |-> explosions, rafQueue |-> rafQueue,
   timers |-> timers, lastTake |-> lastTake]

\* processNextEvent taking the last queued event (pop) instead of the first.
ProcessNextEventPop(s) ==
  IF s.processingEvents \/ Len(s.queuedEvents) = 0 THEN s
  ELSE
    LET event == s.queuedEvents[Len(s.queuedEvents)]
        rest == SubSeq(s.queuedEvents, 1, Len(s.queuedEvents) - 1)
        s1 == [s EXCEPT !.processingEvents = TRUE,
                        !.queuedEvents = rest,
                        !.board = IF event.board # NULL THEN event.board ELSE @,
                        !.rafQueue = Append(@, event),
                        !.lastTake = [taken |-> TRUE, id |-> event.id,
                                      at |-> now]]
    IN IF Len(rest) > 0
       THEN [s1 EXCEPT !.timers =
               Append(@, [kind |-> "pacing",
                          due |-> now + PacingDelay(event, Head(rest))])]
       ELSE [s1 EXCEPT !.processingEvents = FALSE, !.explosions = <<>>]

\* processNextEvent leaving processingEvents set after the last event.
ProcessNextEventNoReset(s) ==
  IF s.processingEvents \/ Len(s.queuedEvents) = 0 THEN s
  ELSE
    LET event == Head(s.queuedEvents)
        rest == Tail(s.queuedEvents)
        s1 == [s EXCEPT !.processingEvents = TRUE,
                        !.queuedEvents = rest,
                        !.board = IF event.board # NULL THEN event.board ELSE @,
                        !.rafQueue = Append(@, event),
                        !.lastTake = [taken |-> TRUE, id |-> event.id,
                                      at |-> now]]
    IN IF Len(rest) > 0
       THEN [s1 EXCEPT !.timers =
               Append(@, [kind |-> "pacing",
                          due |-> now + PacingDelay(event, Head(rest))])]
       ELSE [s1 EXCEPT !.explosions = <<>>]

\* processNextEvent() run at time `now` on state s: returns s unchanged when
\* already processing or nothing is queued; otherwise takes the head event,
\* registers its animation-frame callback and either schedules the pacing
\* timer for the next event or finishes the batch.
ProcessNextEvent(s) ==
  IF s.processingEvents \/ Len(s.queuedEvents) = 0 THEN s
  ELSE
    LET event == Head(s.queuedEvents)
        rest == Tail(s.queuedEvents)
        s1 == [s EXCEPT !.processingEvents = TRUE,
                        !.queuedEvents = rest,
                        !.board = IF event.board # NULL THEN event.board ELSE @,
                        !.rafQueue = Append(@, event),
                        !.lastTake = [taken |-> TRUE, id |-> event.id,
                                      at |-> now]]
    IN IF Len(rest) > 0
       THEN [s1 EXCEPT !.timers =
               Append(@, [kind |-> "pacing",
                          due |-> now + PacingDelay(event, Head(rest))])]
       ELSE [s1 EXCEPT !.processingEvents = FALSE, !.explosions = <<>>]

\* Writes back the state processNextEvent returned.
SetSeqState(s) ==
  /\ processingEvents' = s.processingEvents
  /\ queuedEvents' = s.queuedEvents
  /\ board' = s.board
  /\ explosions' = s.explosions
  /\ rafQueue' = s.rafQueue
  /\ timers' = s.timers
  /\ lastTake' = s.lastTake

\* The element the animation-frame callback (and the explosion / spread
\* handlers) put on the display for an event.
Shown(event) == [type |-> event.type, id |-> event.id]

\* The animation-frame callback adding to the display instead of replacing
\* it.
RafCallbackPush(event, d) ==
  IF event.type = "explosion"
  THEN [ex |-> Append(d.ex, [type |-> event.type, id |-> event.id]),
        tm |-> Append(d.tm, [kind |-> "dwellExplosion",
                             due |-> now + ExplosionDwellMs]),
        sh |-> event.id]
  ELSE IF event.type = "spread"
  THEN [ex |-> Append(d.ex, [type |-> event.type, id |-> event.id]),
        tm |-> Append(d.tm, [kind |-> "dwellSpread",
                             due |-> now + SpreadDwellMs]),
        sh |-> event.id]
  ELSE IF event.type = "add_ball"
  THEN [ex |-> <<>>, tm |-> d.tm, sh |-> event.id]
  ELSE d

\* One requestAnimationFrame callback, for `event`, on d = [ex, tm, sh]:
\* the display, the timers and the id of the last event applied.
RafCallback(event, d) ==
  IF event.type = "explosion"
  THEN [ex |-> <<Shown(event)>>,
        tm |-> Append(d.tm, [kind |-> "dwellExplosion",
                             due |-> now + ExplosionDwellMs]),
        sh |-> event.id]
  ELSE IF event.type = "spread"
  THEN [ex |-> <<Shown(event)>>,
        tm |-> Append(d.tm, [kind |-> "dwellSpread",
                             due |-> now + SpreadDwellMs]),
        sh |-> event.id]
  ELSE IF event.type = "add_ball"
  THEN [ex |-> <<>>, tm |-> d.tm, sh |-> event.id]
  ELSE d

\* All callbacks registered before a frame run in that frame, in order.
RECURSIVE RunFrame(_, _)
RunFrame(q, d) ==
  IF Len(q) = 0 THEN d ELSE RunFrame(Tail(q), RafCallback(Head(q), d))

\* The cancelled events among ids that are still queued once the frame has
\* run every callback.
StillQueued(ids) ==
  {id \in ids : \E i \in 1..Len(queuedEvents) : queuedEvents[i].id = id}

AnimationFrame ==
  /\ Len(rafQueue) > 0
  /\ LET d == RunFrame(rafQueue,
                       [ex |-> explosions, tm |-> timers, sh |-> lastShown])
     IN /\ explosions' = d.ex
        /\ timers' = d.tm
        /\ lastShown' = d.sh
  /\ rafQueue' = <<>>
  /\ voided' = [turn |-> StillQueued(voided.turn),
                ended |-> StillQueued(voided.ended)]
  /\ UNCHANGED <<sessionVars, connVars, gateVars, now, queuedEvents,
                 processingEvents, currentExplosionIndex, batches, intact,
                 lastBatch, lastTake>>

\* ---------------------------------------------------------------- timers
\* setTimeout callbacks run in order of due time, then of creation.
IsNextTimer(k) ==
  /\ k \in 1..Len(timers)
  /\ timers[k].due <= now
  /\ \A j \in 1..Len(timers) :
       j # k => \/ timers[j].due > timers[k].due
                \/ (timers[j].due = timers[k].due /\ j > k)

RemoveAt(q, k) == [i \in 1..(Len(q) - 1) |-> IF i < k THEN q[i] ELSE q[i + 1]]

\* The pacing timer releasing the move lock once the batch has been taken.
PacingTimerReleases ==
  \E k \in 1..Len(timers) :
    /\ IsNextTimer(k)
    /\ timers[k].kind = "pacing"
    /\ LET s == ProcessNextEvent(
                  [SeqState EXCEPT !.processingEvents = FALSE,
                                   !.timers = RemoveAt(timers, k)])
       IN /\ SetSeqState(s)
          /\ moveInProgress' = IF Len(s.queuedEvents) = 0 THEN FALSE
                                ELSE moveInProgress
    /\ UNCHANGED <<roomCode, gameType, players, creator, gameStarted,
                   currentPlayer, choices, turn, round, maxTurns, turnTime,
                   winner, gameEnded, canRestart, playerColors>>
    /\ UNCHANGED <<connVars, lastMoveTime, sent, lastCall, releasedBy,
                   ignored, now,
                   currentExplosionIndex, batches, intact, voided, lastBatch,
                   lastShown>>

\* The pacing timer calling processNextEvent without resetting
\* processingEvents first.
PacingTimerKeepsFlag ==
  \E k \in 1..Len(timers) :
    /\ IsNextTimer(k)
    /\ timers[k].kind = "pacing"
    /\ SetSeqState(ProcessNextEvent(
         [SeqState EXCEPT !.timers = RemoveAt(timers, k)]))
    /\ UNCHANGED <<roomCode, gameType, players, creator, gameStarted,
                   currentPlayer, choices, turn, round, maxTurns, turnTime,
                   winner, gameEnded, canRestart, playerColors>>
    /\ UNCHANGED <<connVars, gateVars, now, currentExplosionIndex, batches,
                   intact, voided, lastBatch, lastShown>>

\* setTimeout(() => { processingEvents = false; processNextEvent() }, delay)
PacingTimer ==
  \E k \in 1..Len(timers) :
    /\ IsNextTimer(k)
    /\ timers[k].kind = "pacing"
    /\ SetSeqState(ProcessNextEvent(
         [SeqState EXCEPT !.processingEvents = FALSE,
                          !.timers = RemoveAt(timers, k)]))
    /\ UNCHANGED <<roomCode, gameType, players, creator, gameStarted,
                   currentPlayer, choices, turn, round, maxTurns, turnTime,
                   winner, gameEnded, canRestart, playerColors>>
    /\ UNCHANGED <<connVars, gateVars, now, currentExplosionIndex, batches,
                   intact, voided, lastBatch, lastShown>>

\* The dwell timers testing for the type of the other kind of event.
DwellTimerOtherType ==
  \E k \in 1..Len(timers) :
    /\ IsNextTimer(k)
    /\ timers[k].kind \in {"dwellExplosion", "dwellSpread"}
    /\ LET t == IF timers[k].kind = "dwellExplosion" THEN "spread"
                ELSE "explosion"
       IN explosions' = IF Len(explosions) > 0 /\ explosions[1].type = t
                        THEN <<>> ELSE explosions
    /\ timers' = RemoveAt(timers, k)
    /\ UNCHANGED <<sessionVars, connVars, gateVars, now, queuedEvents,
                   processingEvents, currentExplosionIndex, rafQueue, batches,
                   intact, voided, lastBatch, lastShown, lastTake>>

\* The dwell timers of the animation-frame callback.
DwellTimer ==
  \E k \in 1..Len(timers) :
    /\ IsNextTimer(k)
    /\ timers[k].kind \in {"dwellExplosion", "dwellSpread"}
    /\ LET t == IF timers[k].kind = "dwellExplosion" THEN "explosion"
                ELSE "spread"
       IN explosions' = IF Len(explosions) > 0 /\ explosions[1].type = t
                        THEN <<>> ELSE explosions
    /\ timers' = RemoveAt(timers, k)
    /\ UNCHANGED <<sessionVars, connVars, gateVars, now, queuedEvents,
                   processingEvents, currentExplosionIndex, rafQueue, batches,
                   intact, voided, lastBatch, lastShown, lastTake>>

\* ------------------------------------------------- handleWebSocketMessage
\* A batch stays intact while none of its queued events has been discarded.
StillIntact == intact /\ Len(queuedEvents) = 0

\* The record of the events a handler has cancelled, after it has reset the
\* sequencer: the events enqueued before the message that are still queued
\* or still await their animation frame once it has been handled.
Voids(by) ==
  LET old == {rafQueue[i].id : i \in 1..Len(rafQueue)}
               \cup {queuedEvents'[i].id : i \in 1..Len(queuedEvents')}
  IN IF by = "turn" THEN [voided EXCEPT !.turn = old]
     ELSE [voided EXCEPT !.ended = old]

\* The record of which message released the lock, after a handler of
\* message type t has assigned moveInProgress = false.
Released(t) == IF moveInProgress THEN t ELSE releasedBy

\* case 'room_state' keeping a creator the store already has.
HandleRoomStateMerges(data) ==
  /\ data.type = "room_state"
  /\ players' = data.room.players
  /\ creator' = IF creator = NULL THEN data.room.creator ELSE creator
  /\ gameStarted' = data.room.game_started
  /\ gameType' = StrOrElse(data.room.game_type, "number_picker")
  /\ IF data.game_ended.has
     THEN /\ gameEnded' = TRUE
          /\ winner' = data.game_ended.winner
          /\ canRestart' = data.game_ended.can_restart
     ELSE UNCHANGED <<gameEnded, winner, canRestart>>
  /\ UNCHANGED <<currentPlayer, choices, turn, round, maxTurns, turnTime,
                 board, playerColors, seqVars>>
  /\ UNCHANGED <<roomCode, connVars, now, gateVars>>

HandleRoomState(data) ==
  /\ data.type = "room_state"
  /\ players' = data.room.players
  /\ creator' = data.room.creator
  /\ gameStarted' = data.room.game_started
  /\ gameType' = StrOrElse(data.room.game_type, "number_picker")
  /\ IF data.game_ended.has
     THEN /\ gameEnded' = TRUE
          /\ winner' = data.game_ended.winner
          /\ canRestart' = data.game_ended.can_restart
     ELSE UNCHANGED <<gameEnded, winner, canRestart>>
  /\ UNCHANGED <<currentPlayer, choices, turn, round, maxTurns, turnTime,
                 board, playerColors, seqVars>>
  /\ UNCHANGED <<roomCode, connVars, now, gateVars>>

HandlePlayerJoined(data) ==
  /\ data.type = "player_joined"
  /\ players' = data.players
  /\ UNCHANGED <<roomCode, gameType, creator, gameStarted, currentPlayer,
                 choices, turn, round, maxTurns, turnTime, winner, gameEnded,
                 canRestart, board, playerColors>>
  /\ UNCHANGED <<connVars, seqVars, gateVars, now>>

HandlePlayerLeft(data) ==
  /\ data.type = "player_left"
  /\ players' = data.players
  /\ creator' = data.creator
  /\ UNCHANGED <<roomCode, gameType, gameStarted, currentPlayer, choices,
                 turn, round, maxTurns, turnTime, winner, gameEnded,
                 canRestart, board, playerColors>>
  /\ UNCHANGED <<connVars, seqVars, gateVars, now>>

HandleGameStarted(data) ==
  /\ data.type = "game_started"
  /\ gameStarted' = TRUE
  /\ gameEnded' = FALSE
  /\ currentPlayer' = data.current_player
  /\ choices' = data.choices
  /\ turn' = data.turn
  /\ round' = data.round
  /\ maxTurns' = data.max_turns
  /\ turnTime' = data.turn_time
  /\ IF data.board # NULL
     THEN /\ board' = data.board
          /\ playerColors' = StrOrElse(data.player_colors, "none")
          /\ explosions' = OrElse(data.explosions, <<>>)
     ELSE UNCHANGED <<board, playerColors, explosions>>
  /\ winner' = NULL
  /\ UNCHANGED <<roomCode, gameType, players, creator, canRestart>>
  /\ UNCHANGED <<queuedEvents, processingEvents, currentExplosionIndex,
                 timers, rafQueue, batches, intact, voided, lastBatch, lastShown, lastTake>>
  /\ UNCHANGED <<connVars, gateVars, now>>

\* case 'next_turn' without the reset of processingEvents.
HandleNextTurnKeepsPlaying(data) ==
  /\ data.type = "next_turn"
  /\ currentPlayer' = data.current_player
  /\ choices' = data.choices
  /\ turn' = data.turn
  /\ round' = data.round
  /\ IF data.board # NULL
     THEN /\ board' = data.board
          /\ explosions' = OrElse(data.explosions, <<>>)
     ELSE UNCHANGED <<board, explosions>>
  /\ moveInProgress' = FALSE
  /\ queuedEvents' = <<>>
  /\ currentExplosionIndex' = 0
  /\ intact' = StillIntact
  /\ voided' = Voids("turn")
  /\ UNCHANGED <<roomCode, gameType, players, creator, gameStarted, maxTurns,
                 turnTime, winner, gameEnded, canRestart, playerColors>>
  /\ releasedBy' = Released("next_turn")
  /\ UNCHANGED ignored
  /\ UNCHANGED <<processingEvents, timers, rafQueue, batches, lastBatch,
                 lastShown, lastTake>>
  /\ UNCHANGED <<connVars, now, lastMoveTime, sent, lastCall>>

HandleNextTurn(data) ==
  /\ data.type = "next_turn"
  /\ currentPlayer' = data.current_player
  /\ choices' = data.choices
  /\ turn' = data.turn
  /\ round' = data.round
  /\ IF data.board # NULL
     THEN /\ board' = data.board
          /\ explosions' = OrElse(data.explosions, <<>>)
     ELSE UNCHANGED <<board, explosions>>
  /\ moveInProgress' = FALSE
  /\ processingEvents' = FALSE
  /\ queuedEvents' = <<>>
  /\ currentExplosionIndex' = 0
  /\ intact' = StillIntact
  /\ voided' = Voids("turn")
  /\ UNCHANGED <<roomCode, gameType, players, creator, gameStarted, maxTurns,
                 turnTime, winner, gameEnded, canRestart, playerColors>>
  /\ releasedBy' = Released("next_turn")
  /\ UNCHANGED ignored
  /\ UNCHANGED <<timers, rafQueue, batches, lastBatch, lastShown, lastTake>>
  /\ UNCHANGED <<connVars, now, lastMoveTime, sent, lastCall>>

\* case 'game_events' clearing the move lock for a non-empty batch as well.
HandleGameEventsReleases(data) ==
  /\ data.type = "game_events"
  /\ LET nonEmpty == data.events.has /\ data.events.n > 0
         events == IF nonEmpty
                   THEN BatchOf(batches + 1, data.events.n, data.events.p)
                   ELSE <<>>
         s0 == [SeqState EXCEPT
                  !.queuedEvents = events,
                  !.board = IF data.board # NULL THEN data.board ELSE @]
     IN IF Len(events) > 0
        THEN /\ SetSeqState(ProcessNextEvent(s0))
             /\ batches' = batches + 1
             /\ lastBatch' = Len(events)
             /\ intact' = TRUE
        ELSE /\ SetSeqState(s0)
             /\ intact' = StillIntact
             /\ UNCHANGED <<batches, lastBatch>>
  /\ moveInProgress' = FALSE
  /\ releasedBy' = Released("game_events")
  /\ UNCHANGED ignored
  /\ UNCHANGED <<roomCode, gameType, players, creator, gameStarted,
                 currentPlayer, choices, turn, round, maxTurns, turnTime,
                 winner, gameEnded, canRestart, playerColors>>
  /\ UNCHANGED <<currentExplosionIndex, lastShown, voided>>
  /\ UNCHANGED <<connVars, now, lastMoveTime, sent, lastCall>>

\* case 'game_events' adding the batch to the events still queued instead of
\* replacing them.
HandleGameEventsAppends(data) ==
  /\ data.type = "game_events"
  /\ LET nonEmpty == data.events.has /\ data.events.n > 0
         events == IF nonEmpty
                   THEN BatchOf(batches + 1, data.events.n, data.events.p)
                   ELSE <<>>
         s0 == [SeqState EXCEPT
                  !.queuedEvents = @ \o events,
                  !.board = IF data.board # NULL THEN data.board ELSE @]
     IN IF Len(events) > 0
        THEN /\ SetSeqState(ProcessNextEvent(s0))
             /\ batches' = batches + 1
             /\ lastBatch' = Len(events)
             /\ intact' = TRUE
             /\ UNCHANGED <<moveInProgress, releasedBy, ignored>>
        ELSE /\ SetSeqState(s0)
             /\ moveInProgress' = FALSE
             /\ releasedBy' = Released("game_events")
             /\ UNCHANGED ignored
             /\ intact' = StillIntact
             /\ UNCHANGED <<batches, lastBatch>>
  /\ UNCHANGED <<roomCode, gameType, players, creator, gameStarted,
                 currentPlayer, choices, turn, round, maxTurns, turnTime,
                 winner, gameEnded, canRestart, playerColors>>
  /\ UNCHANGED <<currentExplosionIndex, lastShown, voided>>
  /\ UNCHANGED <<connVars, now, lastMoveTime, sent, lastCall>>

\* case 'game_events': the batch replaces the queue, the board is replaced
\* if the message has one; a non-empty batch starts the sequencer, an empty
\* or absent one clears the move lock.
HandleGameEvents(data) ==
  /\ data.type = "game_events"
  /\ LET nonEmpty == data.events.has /\ data.events.n > 0
         events == IF nonEmpty
                   THEN BatchOf(batches + 1, data.events.n, data.events.p)
                   ELSE <<>>
         s0 == [SeqState EXCEPT
                  !.queuedEvents = events,
                  !.board = IF data.board # NULL THEN data.board ELSE @]
     IN IF Len(events) > 0
        THEN /\ SetSeqState(ProcessNextEvent(s0))
             /\ batches' = batches + 1
             /\ lastBatch' = Len(events)
             /\ intact' = TRUE
             /\ UNCHANGED <<moveInProgress, releasedBy, ignored>>
        ELSE /\ SetSeqState(s0)
             /\ moveInProgress' = FALSE
             /\ releasedBy' = Released("game_events")
             /\ UNCHANGED ignored
             /\ intact' = StillIntact
             /\ UNCHANGED <<batches, lastBatch>>
  /\ UNCHANGED <<roomCode, gameType, players, creator, gameStarted,
                 currentPlayer, choices, turn, round, maxTurns, turnTime,
                 winner, gameEnded, canRestart, playerColors>>
  /\ UNCHANGED <<currentExplosionIndex, lastShown, voided>>
  /\ UNCHANGED <<connVars, now, lastMoveTime, sent, lastCall>>

HandleAddBall(data) ==
  /\ data.type = "add_ball"
  /\ board' = IF data.board # NULL THEN data.board ELSE board
  /\ explosions' = <<>>
  /\ UNCHANGED <<roomCode, gameType, players, creator, gameStarted,
                 currentPlayer, choices, turn, round, maxTurns, turnTime,
                 winner, gameEnded, canRestart, playerColors>>
  /\ UNCHANGED <<queuedEvents, processingEvents, currentExplosionIndex,
                 timers, rafQueue, batches, intact, voided, lastBatch, lastShown, lastTake>>
  /\ UNCHANGED <<connVars, gateVars, now>>

\* case 'explosion' and case 'spread': one standalone animation element
HandleExplosion(data) ==
  /\ data.type = "explosion"
  /\ explosions' = <<[type |-> "explosion", id |-> data.id]>>
  /\ UNCHANGED <<queuedEvents, processingEvents, currentExplosionIndex,
                 timers, rafQueue, batches, intact, voided, lastBatch, lastShown, lastTake>>
  /\ UNCHANGED <<sessionVars, connVars, gateVars, now>>

HandleSpread(data) ==
  /\ data.type = "spread"
  /\ explosions' = <<[type |-> "spread", id |-> data.id]>>
  /\ UNCHANGED <<queuedEvents, processingEvents, currentExplosionIndex,
                 timers, rafQueue, batches, intact, voided, lastBatch, lastShown, lastTake>>
  /\ UNCHANGED <<sessionVars, connVars, gateVars, now>>

\* case 'game_over' that also releases the move lock.
HandleGameOverReleases(data) ==
  /\ data.type = "game_over"
  /\ gameEnded' = TRUE
  /\ winner' = data.winner
  /\ explosions' = <<>>
  /\ moveInProgress' = FALSE
  /\ UNCHANGED <<roomCode, gameType, players, creator, gameStarted,
                 currentPlayer, choices, turn, round, maxTurns, turnTime,
                 canRestart, board, playerColors>>
  /\ UNCHANGED <<queuedEvents, processingEvents, currentExplosionIndex,
                 timers, rafQueue, batches, intact, voided, lastBatch, lastShown,
                 lastTake>>
  /\ UNCHANGED <<connVars, now, lastMoveTime, sent, lastCall, releasedBy,
                 ignored>>

HandleGameOver(data) ==
  /\ data.type = "game_over"
  /\ gameEnded' = TRUE
  /\ winner' = data.winner
  /\ explosions' = <<>>
  /\ UNCHANGED <<roomCode, gameType, players, creator, gameStarted,
                 currentPlayer, choices, turn, round, maxTurns, turnTime,
                 canRestart, board, playerColors>>
  /\ UNCHANGED <<queuedEvents, processingEvents, currentExplosionIndex,
                 timers, rafQueue, batches, intact, voided, lastBatch, lastShown, lastTake>>
  /\ UNCHANGED <<connVars, gateVars, now>>

HandleAutoChoice(data) ==
  /\ data.type = "auto_choice"
  /\ ignored' = data.type
  /\ UNCHANGED <<sessionVars, connVars, seqVars, now, lastMoveTime,
                 moveInProgress, sent, lastCall, releasedBy>>

HandleGameEnded(data) ==
  /\ data.type = "game_ended"
  /\ gameEnded' = TRUE
  /\ gameStarted' = FALSE
  /\ winner' = data.winner
  /\ canRestart' = data.can_restart
  /\ board' = IF data.board # NULL THEN data.board ELSE board
  /\ playerColors' = IF data.player_colors # NULL THEN data.player_colors
                     ELSE playerColors
  /\ explosions' = <<>>
  /\ queuedEvents' = <<>>
  /\ processingEvents' = FALSE
  /\ intact' = StillIntact
  /\ voided' = Voids("ended")
  /\ UNCHANGED <<roomCode, gameType, players, creator, currentPlayer, choices,
                 turn, round, maxTurns, turnTime>>
  /\ UNCHANGED <<currentExplosionIndex, timers, rafQueue, batches, lastBatch,
                 lastShown, lastTake>>
  /\ UNCHANGED <<connVars, gateVars, now>>

\* case 'error' that also empties the choices on offer.
HandleErrorClearsChoices(data) ==
  /\ data.type = "error"
  /\ moveInProgress' = FALSE
  /\ processingEvents' = FALSE
  /\ queuedEvents' = <<>>
  /\ choices' = <<>>
  /\ intact' = StillIntact
  /\ voided' = Voids("turn")
  /\ UNCHANGED <<explosions, currentExplosionIndex, timers, rafQueue, batches,
                 lastBatch, lastShown, lastTake>>
  /\ releasedBy' = Released("error")
  /\ UNCHANGED ignored
  /\ UNCHANGED <<roomCode, gameType, players, creator, gameStarted,
                 currentPlayer, turn, round, maxTurns, turnTime, winner,
                 gameEnded, canRestart, board, playerColors>>
  /\ UNCHANGED <<connVars, now, lastMoveTime, sent, lastCall>>

HandleError(data) ==
  /\ data.type = "error"
  /\ moveInProgress' = FALSE
  /\ processingEvents' = FALSE
  /\ queuedEvents' = <<>>
  /\ intact' = StillIntact
  /\ voided' = Voids("turn")
  /\ UNCHANGED <<explosions, currentExplosionIndex, timers, rafQueue, batches,
                 lastBatch, lastShown, lastTake>>
  /\ releasedBy' = Released("error")
  /\ UNCHANGED ignored
  /\ UNCHANGED <<sessionVars, connVars, now, lastMoveTime, sent, lastCall>>

\* An unmatched frame clearing the animation display.
HandleUnknownClearsDisplay(data) ==
  /\ data.type \notin {"room_state", "player_joined", "player_left",
                       "game_started", "next_turn", "game_events", "add_ball",
                       "explosion", "spread", "game_over", "auto_choice",
                       "game_ended", "error"}
  /\ ignored' = data.type
  /\ explosions' = <<>>
  /\ UNCHANGED <<sessionVars, connVars, now, lastMoveTime, moveInProgress,
                 sent, lastCall, releasedBy>>
  /\ UNCHANGED <<queuedEvents, processingEvents, currentExplosionIndex,
                 timers, rafQueue, batches, intact, voided, lastBatch, lastShown,
                 lastTake>>

\* No case of the switch matches: nothing happens.
HandleUnknown(data) ==
  /\ data.type \notin {"room_state", "player_joined", "player_left",
                       "game_started", "next_turn", "game_events", "add_ball",
                       "explosion", "spread", "game_over", "auto_choice",
                       "game_ended", "error"}
  /\ ignored' = data.type
  /\ UNCHANGED <<sessionVars, connVars, seqVars, now, lastMoveTime,
                 moveInProgress, sent, lastCall, releasedBy>>

HandleWebSocketMessage(data) ==
  \/ HandleRoomState(data)
  \/ HandlePlayerJoined(data)
  \/ HandlePlayerLeft(data)
  \/ HandleGameStarted(data)
  \/ HandleNextTurn(data)
  \/ HandleGameEvents(data)
  \/ HandleAddBall(data)
  \/ HandleExplosion(data)
  \/ HandleSpread(data)
  \/ HandleGameOver(data)
  \/ HandleAutoChoice(data)
  \/ HandleGameEnded(data)
  \/ HandleError(data)
  \/ HandleUnknown(data)

\* The server, the network and the user act during the first MaxElapsed ms;
\* afterwards only the timers that are still pending run.
InHorizon == now <= T0 + MaxElapsed

\* ws.onmessage: a frame is delivered on the store's open socket.
OnMessage(data) ==
  /\ InHorizon
  /\ ws = "OPEN"
  /\ HandleWebSocketMessage(data)

\* ws.onmessage for a frame that is not JSON: JSON.parse throws before
\* handleWebSocketMessage is called, and the exception leaves the callback.
OnMessageUnparsable ==
  /\ InHorizon
  /\ ws = "OPEN"
  /\ ignored' = "unparsable"
  /\ UNCHANGED <<sessionVars, connVars, seqVars, now, lastMoveTime,
                 moveInProgress, sent, lastCall, releasedBy>>

\* ---------------------------------------------------------------- getters
\* isMyTurn reading the creator instead of the current player.
isMyTurnOfCreator == creator = Me

\* isMyTurn: (state) => state.currentPlayer === username
isMyTurn == currentPlayer = Me

\* ------------------------------------------------------------- Game view
\* watch(() => gameStore.turn, () => { timerKey.value++ }): the watcher
\* runs, and the countdown components keyed by timerKey are created anew
\* with timeLeft = duration, after the handlers that change the value of
\* turn, and after no other.
timerKeyChanges == turn' # turn

\* ------------------------------------------------------------- move gate
\* The record of a makeChoice call made now.
Call(result) ==
  [made |-> TRUE, at |-> now, result |-> result, locked |-> moveInProgress,
   sentAt |-> IF result = "sent" THEN now ELSE lastCall.sentAt]

\* makeChoice without the moveInProgress test of its guard.
makeChoiceNoLock(choice) ==
  /\ InHorizon
  /\ IF now - lastMoveTime < DebounceMs
     THEN /\ lastCall' = Call("blocked")
          /\ UNCHANGED <<moveInProgress, lastMoveTime, sent>>
     ELSE IF ws = "OPEN"
     THEN /\ moveInProgress' = TRUE
          /\ lastMoveTime' = now
          /\ sent' = Append(sent, [type |-> "make_choice", action |-> choice])
          /\ lastCall' = Call("sent")
     ELSE /\ lastCall' = Call("nosocket")
          /\ UNCHANGED <<moveInProgress, lastMoveTime, sent>>
  /\ UNCHANGED <<sessionVars, connVars, seqVars, now, releasedBy, ignored>>

\* makeChoice without the debounce test of its guard.
makeChoiceNoDebounce(choice) ==
  /\ InHorizon
  /\ IF moveInProgress
     THEN /\ lastCall' = Call("blocked")
          /\ UNCHANGED <<moveInProgress, lastMoveTime, sent>>
     ELSE IF ws = "OPEN"
     THEN /\ moveInProgress' = TRUE
          /\ lastMoveTime' = now
          /\ sent' = Append(sent, [type |-> "make_choice", action |-> choice])
          /\ lastCall' = Call("sent")
     ELSE /\ lastCall' = Call("nosocket")
          /\ UNCHANGED <<moveInProgress, lastMoveTime, sent>>
  /\ UNCHANGED <<sessionVars, connVars, seqVars, now, releasedBy, ignored>>

\* makeChoice(choice), called by the Game view on a click.
makeChoice(choice) ==
  /\ InHorizon
  /\ IF moveInProgress \/ now - lastMoveTime < DebounceMs
     THEN \* 'Move blocked'
          /\ lastCall' = Call("blocked")
          /\ UNCHANGED <<moveInProgress, lastMoveTime, sent>>
     ELSE IF ws = "OPEN"
     THEN /\ moveInProgress' = TRUE
          /\ lastMoveTime' = now
          /\ sent' = Append(sent, [type |-> "make_choice", action |-> choice])
          /\ lastCall' = Call("sent")
     ELSE /\ lastCall' = Call("nosocket")
          /\ UNCHANGED <<moveInProgress, lastMoveTime, sent>>
  /\ UNCHANGED <<sessionVars, connVars, seqVars, now, releasedBy, ignored>>

\* startGame sending its frame whatever the state of the socket.
startGameAnySocket ==
  /\ InHorizon
  /\ sent' = Append(sent, [type |-> "start_game"])
  /\ UNCHANGED <<sessionVars, connVars, seqVars, now, lastMoveTime,
                 moveInProgress, lastCall, releasedBy, ignored>>

\* startGame(): sends start_game when the socket is open, else does nothing.
startGame ==
  /\ InHorizon
  /\ sent' = IF ws = "OPEN" THEN Append(sent, [type |-> "start_game"])
             ELSE sent
  /\ UNCHANGED <<sessionVars, connVars, seqVars, now, lastMoveTime,
                 moveInProgress, lastCall, releasedBy, ignored>>

\* restartGame(): sends restart_game when the socket is open, else does
\* nothing.
restartGame ==
  /\ InHorizon
  /\ sent' = IF ws = "OPEN" THEN Append(sent, [type |-> "restart_game"])
             ELSE sent
  /\ UNCHANGED <<sessionVars, connVars, seqVars, now, lastMoveTime,
                 moveInProgress, lastCall, releasedBy, ignored>>

\* ------------------------------------------------------------- connection
\* this.ws.close() on a socket that is connecting or open leaves a socket
\* whose close event is still to be delivered.
AfterClose == IF ws \in {"CONNECTING", "OPEN"} THEN oldSockets + 1
              ELSE oldSockets

\* The sockets left connecting or open once this.ws.close() has been called
\* on the store's socket.
LiveAfterClose == IF ws \in {"CONNECTING", "OPEN"} THEN liveSockets - 1
                  ELSE liveSockets

\* connectWebSocket creating the new socket without closing the prior one.
ConnectWebSocketKeepsPrior ==
  /\ sockets < MaxSockets
  /\ oldSockets' = oldSockets
  /\ ws' = "CONNECTING"
  /\ connectionStatus' = "connecting"
  /\ sockets' = sockets + 1
  /\ liveSockets' = liveSockets + 1
  /\ UNCHANGED lastClose

\* The body of connectWebSocket(roomCode, username).
ConnectWebSocket ==
  /\ sockets < MaxSockets
  /\ oldSockets' = AfterClose
  /\ ws' = "CONNECTING"
  /\ connectionStatus' = "connecting"
  /\ sockets' = sockets + 1
  /\ liveSockets' = LiveAfterClose + 1
  /\ UNCHANGED lastClose

\* Room view onMounted: connects unconditionally.
RoomMounted ==
  /\ ConnectWebSocket
  /\ UNCHANGED <<sessionVars, seqVars, gateVars, now>>

\* Game view onMounted: connects unless the socket is open.
GameMounted ==
  /\ ws # "OPEN"
  /\ ConnectWebSocket
  /\ UNCHANGED <<sessionVars, seqVars, gateVars, now>>

OnOpen ==
  /\ ws = "CONNECTING"
  /\ ws' = "OPEN"
  /\ connectionStatus' = "connected"
  /\ UNCHANGED <<sessionVars, seqVars, gateVars, now, oldSockets, sockets,
                 liveSockets, lastClose>>

OnError ==
  /\ InHorizon
  /\ ws \in {"CONNECTING", "OPEN"}
  /\ connectionStatus' = "error"
  /\ UNCHANGED <<sessionVars, seqVars, gateVars, now, ws, oldSockets, sockets,
                 liveSockets, lastClose>>

\* The record of a close event with `code` handled now.
Closed(code, scheduled) ==
  [n |-> lastClose.n + 1, code |-> code, room |-> roomCode # NULL,
   cleared |-> IF scheduled THEN FALSE ELSE lastClose.cleared]

\* ws.onclose scheduling the reconnection whatever the close code.
OnCloseBodyAnyCode(code) ==
  /\ connectionStatus' = "disconnected"
  /\ timers' = IF roomCode # NULL
               THEN Append(timers, [kind |-> "reconnect",
                                    due |-> now + ReconnectDelayMs])
               ELSE timers
  /\ lastClose' = Closed(code, roomCode # NULL)
  /\ UNCHANGED <<sessionVars, gateVars, now, sockets, explosions,
                 queuedEvents, processingEvents, currentExplosionIndex,
                 rafQueue, batches, intact, voided, lastBatch, lastShown, lastTake>>

\* ws.onclose scheduling the reconnection with a delay that grows with the
\* number of closes.
OnCloseBodyBackoff(code) ==
  /\ connectionStatus' = "disconnected"
  /\ timers' = IF roomCode # NULL /\ code # 1000 /\ code # 1001
               THEN Append(timers,
                      [kind |-> "reconnect",
                       due |-> now + ReconnectDelayMs * (lastClose.n + 1)])
               ELSE timers
  /\ lastClose' = Closed(code, roomCode # NULL /\ code # 1000 /\ code # 1001)
  /\ UNCHANGED <<sessionVars, gateVars, now, sockets, explosions,
                 queuedEvents, processingEvents, currentExplosionIndex,
                 rafQueue, batches, intact, voided, lastBatch, lastShown, lastTake>>

\* The body of ws.onclose for a close event with `code`.
OnCloseBody(code) ==
  /\ connectionStatus' = "disconnected"
  /\ timers' = IF roomCode # NULL /\ code # 1000 /\ code # 1001
               THEN Append(timers, [kind |-> "reconnect",
                                    due |-> now + ReconnectDelayMs])
               ELSE timers
  /\ lastClose' = Closed(code, roomCode # NULL /\ code # 1000 /\ code # 1001)
  /\ UNCHANGED <<sessionVars, gateVars, now, sockets, explosions,
                 queuedEvents, processingEvents, currentExplosionIndex,
                 rafQueue, batches, intact, voided, lastBatch, lastShown, lastTake>>

\* The store's current socket is closed by the server or the network.
OnClose ==
  \E code \in CloseCodes :
    /\ InHorizon
    /\ ws \in {"CONNECTING", "OPEN"}
    /\ ws' = "CLOSED"
    /\ liveSockets' = liveSockets - 1
    /\ OnCloseBody(code)
    /\ UNCHANGED oldSockets

\* The store's current socket is closed by the server or the network, at
\* any time, a reconnected socket included.
Drop ==
  \E code \in CloseCodes :
    /\ ws \in {"CONNECTING", "OPEN"}
    /\ ws' = "CLOSED"
    /\ liveSockets' = liveSockets - 1
    /\ OnCloseBody(code)
    /\ UNCHANGED oldSockets

\* The close event of a socket the store closed itself.
OnCloseOld ==
  \E code \in CloseCodes :
    /\ oldSockets > 0
    /\ oldSockets' = oldSockets - 1
    /\ OnCloseBody(code)
    /\ UNCHANGED <<ws, liveSockets>>

\* The reconnection callback left scheduled after it has run.
ReconnectTimerRepeats ==
  \E k \in 1..Len(timers) :
    /\ IsNextTimer(k)
    /\ timers[k].kind = "reconnect"
    /\ timers' = [timers EXCEPT ![k].due = now + ReconnectDelayMs]
    /\ IF roomCode # NULL
       THEN ConnectWebSocket
       ELSE UNCHANGED connVars
    /\ UNCHANGED <<sessionVars, gateVars, now, explosions, queuedEvents,
                   processingEvents, currentExplosionIndex, rafQueue, batches,
                   intact, voided, lastBatch, lastShown, lastTake>>

\* The reconnection callback without its second look at roomCode.
ReconnectTimerNoRecheck ==
  \E k \in 1..Len(timers) :
    /\ IsNextTimer(k)
    /\ timers[k].kind = "reconnect"
    /\ timers' = RemoveAt(timers, k)
    /\ ConnectWebSocket
    /\ UNCHANGED <<sessionVars, gateVars, now, explosions, queuedEvents,
                   processingEvents, currentExplosionIndex, rafQueue, batches,
                   intact, voided, lastBatch, lastShown, lastTake>>

\* setTimeout(() => { if (this.roomCode) connectWebSocket(...) }, 3000)
ReconnectTimer ==
  \E k \in 1..Len(timers) :
    /\ IsNextTimer(k)
    /\ timers[k].kind = "reconnect"
    /\ timers' = RemoveAt(timers, k)
    /\ IF roomCode # NULL
       THEN ConnectWebSocket
       ELSE UNCHANGED connVars
    /\ UNCHANGED <<sessionVars, gateVars, now, explosions, queuedEvents,
                   processingEvents, currentExplosionIndex, rafQueue, batches,
                   intact, voided, lastBatch, lastShown, lastTake>>

\* createRoom / joinRoom after a successful HTTP response.
CreateRoom ==
  \E code \in RoomCodes :
    /\ roomCode = NULL
    /\ roomCode' = code
    /\ creator' = Me
    /\ UNCHANGED <<gameType, players, gameStarted, currentPlayer, choices,
                   turn, round, maxTurns, turnTime, winner, gameEnded,
                   canRestart, board, playerColors>>
    /\ UNCHANGED <<connVars, seqVars, gateVars, now>>

JoinRoom ==
  \E code \in RoomCodes :
    /\ roomCode = NULL
    /\ roomCode' = code
    /\ players' = <<"bob", "alice">>
    /\ creator' = "bob"
    /\ UNCHANGED <<gameType, gameStarted, currentPlayer, choices, turn, round,
                   maxTurns, turnTime, winner, gameEnded, canRestart, board,
                   playerColors>>
    /\ UNCHANGED <<connVars, seqVars, gateVars, now>>

\* exitGame(), resetState() included.
ExitGame ==
  /\ InHorizon
  /\ sent' = IF ws = "OPEN" THEN Append(sent, [type |-> "exit_game"])
             ELSE sent
  /\ oldSockets' = AfterClose
  /\ liveSockets' = LiveAfterClose
  /\ lastClose' = [lastClose EXCEPT !.cleared = TRUE]
  /\ ws' = NULL
  /\ roomCode' = NULL
  /\ players' = <<>>
  /\ creator' = NULL
  /\ gameStarted' = FALSE
  /\ currentPlayer' = NULL
  /\ choices' = <<>>
  /\ turn' = 0
  /\ winner' = NULL
  /\ gameEnded' = FALSE
  /\ canRestart' = FALSE
  /\ UNCHANGED <<gameType, round, maxTurns, turnTime, board, playerColors,
                 connectionStatus, sockets, seqVars, lastMoveTime,
                 moveInProgress, lastCall, releasedBy, ignored, now>>

\* ------------------------------------------------------------------ time
DueTimes == { timers[k].due : k \in 1..Len(timers) }

\* Date.now() advances: by one step while the horizon allows, or straight to
\* the next timer; never past a timer that is due, and (the page being
\* visible) not before the pending animation frame has run.
Advance ==
  /\ Len(rafQueue) = 0
  /\ \A d \in DueTimes : d > now
  /\ \E t \in ({now + Step} \cap (0..(T0 + MaxElapsed))) \cup DueTimes :
       /\ \A d \in DueTimes : t <= d
       /\ now' = t
  /\ UNCHANGED <<sessionVars, connVars, seqVars, gateVars>>

\* ----------------------------------------------------------- environment
\* The store in the middle of a game: the state reached from Init by
\* CreateRoom, RoomMounted, OnOpen, a room_state and a game_started message.
InGame ==
  /\ roomCode = "AB12CD" /\ gameType = "number_picker"
  /\ players = <<"alice", "bob">> /\ creator = "alice"
  /\ gameStarted = TRUE /\ currentPlayer = "alice"
  /\ choices = <<-2, -1, 1, 2>> /\ turn = 1 /\ round = 0 /\ maxTurns = 5
  /\ turnTime = 10 /\ winner = NULL /\ gameEnded = FALSE /\ ws = "OPEN"
  /\ connectionStatus = "connected" /\ canRestart = FALSE
  /\ board = "B1" /\ playerColors = "none" /\ explosions = <<>>
  /\ queuedEvents = <<>> /\ processingEvents = FALSE /\ lastMoveTime = 0
  /\ moveInProgress = FALSE /\ currentExplosionIndex = 0
  /\ now = T0 /\ timers = <<>> /\ rafQueue = <<>> /\ oldSockets = 0
  /\ sent = <<>> /\ sockets = 1 /\ batches = 0 /\ intact = TRUE /\ voided = NoVoid
  /\ lastBatch = 0 /\ lastShown = <<0, 0>> /\ lastTake = NoTake
  /\ lastCall = NoCall /\ releasedBy = NULL
  /\ liveSockets = 1 /\ lastClose = NoClose /\ ignored = "none"

\* The server's frames, drawn from the message set M.  A non-empty batch is
\* delivered while fewer than maxBatches have been, and has at most maxLen
\* events.
ReceiveRoomState(M) ==
  \E data \in M : data.type = "room_state" /\ OnMessage(data)
ReceivePlayers(M) ==
  \E data \in M : data.type \in {"player_joined", "player_left"}
                  /\ OnMessage(data)
ReceiveGameStarted(M) ==
  \E data \in M : data.type = "game_started" /\ OnMessage(data)
ReceiveNextTurn(M) ==
  \E data \in M : data.type = "next_turn" /\ OnMessage(data)
ReceiveGameEvents(M, maxBatches, maxLen) ==
  \E data \in M :
    /\ data.type = "game_events"
    /\ data.events.n <= maxLen
    /\ data.events.n > 0 => batches < maxBatches
    /\ OnMessage(data)
ReceiveAddBall ==
  \E data \in AddBallMsgs : data.type = "add_ball" /\ OnMessage(data)
ReceiveExplosion ==
  \E data \in ExplosionMsgs : data.type = "explosion" /\ OnMessage(data)
ReceiveSpread ==
  \E data \in SpreadMsgs : data.type = "spread" /\ OnMessage(data)
ReceiveGameOver ==
  \E data \in GameOverMsgs : data.type = "game_over" /\ OnMessage(data)
ReceiveAutoChoice ==
  \E data \in AutoChoiceMsgs : data.type = "auto_choice" /\ OnMessage(data)
ReceiveGameEnded ==
  \E data \in GameEndedMsgs : data.type = "game_ended" /\ OnMessage(data)
ReceiveError ==
  \E data \in ErrorMsgs : data.type = "error" /\ OnMessage(data)
ReceiveMalformed ==
  \E data \in MalformedMsgs : data.winner = Undefined /\ OnMessage(data)
ReceiveUnknown ==
  \E data \in UnknownMsgs : data.type = "ping" /\ OnMessage(data)

\* A click on a choice, while fewer than maxSent frames have been sent.
MakeChoice(maxSent) ==
  \E choice \in Choices : Len(sent) < maxSent /\ makeChoice(choice)

\* --------------------------------------------------------- specifications
\* Spec: every message type the switch acts on, the sequencer with a short
\* animation batch and the move gate; the socket stays open.
GateRoomStateMsgs ==
  { m \in RoomStateMsgs :
      /\ m.room.game_started /\ ~m.game_ended.has
      /\ m.room.game_type = NULL /\ m.room.creator = "alice" }
GatePlayerMsgs == { m \in PlayerMsgs : m.type = "player_joined" }
GateGameStartedMsgs ==
  { m \in GameStartedMsgs : m.board # NULL /\ m.explosions = Some(<<X1>>) }
GateNextTurnMsgs ==
  { m \in NextTurnMsgs : m.board = NULL /\ m.explosions = Absent }
GateGameEventsMsgs == { m \in GameEventsMsgs : m.events.p = 1 /\ m.board = NULL }

GateNextTurn == ReceiveNextTurn(GateNextTurnMsgs)
GateGameEvents ==
  ReceiveGameEvents(GateGameEventsMsgs, GateBatches, GateBatchLen)

\* Spec takes its frames and clicks in the first WideElapsed ms; the timers
\* they start run on afterwards.
Early == now <= T0 + WideElapsed
WideRoomState == Early /\ ReceiveRoomState(GateRoomStateMsgs)
WidePlayers == Early /\ ReceivePlayers(GatePlayerMsgs)
WideGameStarted == Early /\ ReceiveGameStarted(GateGameStartedMsgs)
WideNextTurn == Early /\ GateNextTurn
WideGameEvents == Early /\ GateGameEvents
WideAddBall == Early /\ ReceiveAddBall
WideExplosion == Early /\ ReceiveExplosion
WideSpread == Early /\ ReceiveSpread
WideGameOver == Early /\ ReceiveGameOver
WideGameEnded == Early /\ ReceiveGameEnded
WideError == Early /\ ReceiveError
WideMakeChoice == Early /\ MakeChoice(WideSent)

Next ==
  \/ WideRoomState \/ WidePlayers \/ WideGameStarted \/ WideNextTurn
  \/ WideGameEvents
  \/ WideAddBall \/ WideExplosion \/ WideSpread \/ WideGameOver
  \/ WideGameEnded \/ WideError
  \/ AnimationFrame \/ PacingTimer \/ DwellTimer
  \/ WideMakeChoice \/ Advance

Spec == InGame /\ [][Next]_vars

\* SpecConn: the move gate and every timer while the connection drops,
\* reconnects and is left; the server sends the lock-releasing frames in
\* the first ConnElapsed ms, the clicks go on.
ConnEarly == now <= T0 + ConnElapsed
ConnNextTurn == ConnEarly /\ GateNextTurn
ConnGameEvents == ConnEarly /\ GateGameEvents
ConnError == ConnEarly /\ ReceiveError
GateMakeChoice == MakeChoice(MaxSent)

NextConn ==
  \/ OnOpen \/ OnError \/ OnClose \/ ReconnectTimer \/ ExitGame
  \/ ConnNextTurn \/ ConnGameEvents \/ ConnError
  \/ AnimationFrame \/ PacingTimer \/ DwellTimer
  \/ GateMakeChoice \/ Advance

SpecConn == InGame /\ [][NextConn]_vars

\* SpecSeq: the event sequencer with repeated batches; no move is made.
SeqGameEvents == ReceiveGameEvents(GameEventsMsgs, MaxBatches, MaxBatchLen)

NextSeq ==
  \/ GateNextTurn \/ SeqGameEvents \/ ReceiveGameEnded \/ ReceiveError
  \/ AnimationFrame \/ PacingTimer \/ DwellTimer \/ Advance

SpecSeq == InGame /\ [][NextSeq]_vars

\* SpecDisplay: everything that writes the animation display, with every
\* shape of the server's explosions lists.
DisplayGameStarted == ReceiveGameStarted(GameStartedMsgs)
DisplayNextTurn == ReceiveNextTurn(NextTurnMsgs)

NextDisplay ==
  \/ DisplayGameStarted \/ DisplayNextTurn \/ GateGameEvents
  \/ ReceiveAddBall \/ ReceiveExplosion \/ ReceiveSpread \/ ReceiveGameOver
  \/ ReceiveGameEnded \/ ReceiveError
  \/ AnimationFrame \/ PacingTimer \/ DwellTimer \/ Advance

SpecDisplay == InGame /\ [][NextDisplay]_vars

\* SpecLink: a fresh store; the user creates or joins a room, the views
\* mount, the connection opens, drops, reconnects and is left.  The user
\* and the network act in the first LinkElapsed ms; the reconnection timers
\* run on afterwards.
LinkEarly == now <= T0 + LinkElapsed
LinkCreateRoom == LinkEarly /\ CreateRoom
LinkJoinRoom == LinkEarly /\ JoinRoom
LinkRoomMounted == LinkEarly /\ RoomMounted
LinkGameMounted == LinkEarly /\ GameMounted
LinkOnError == LinkEarly /\ OnError
LinkOnClose == LinkEarly /\ OnClose
LinkExitGame == LinkEarly /\ ExitGame

NextLink ==
  \/ LinkCreateRoom \/ LinkJoinRoom \/ LinkRoomMounted \/ LinkGameMounted
  \/ OnOpen \/ LinkOnError \/ LinkOnClose \/ OnCloseOld \/ ReconnectTimer
  \/ LinkExitGame \/ Advance

SpecLink == Init /\ [][NextLink]_vars

\* SpecSession: the session frames of the server, with every payload, on an
\* open connection in the first SessElapsed ms.
SessEarly == now <= T0 + SessElapsed
SessRoomState == SessEarly /\ ReceiveRoomState(RoomStateMsgs)
SessPlayers == SessEarly /\ ReceivePlayers(PlayerMsgs)
SessGameStarted == SessEarly /\ ReceiveGameStarted(GateGameStartedMsgs)
SessNextTurn == SessEarly /\ GateNextTurn
SessGameOver == SessEarly /\ ReceiveGameOver
SessGameEnded == SessEarly /\ ReceiveGameEnded
SessAutoChoice == SessEarly /\ ReceiveAutoChoice
SessUnknown == SessEarly /\ ReceiveUnknown
SessMalformed == SessEarly /\ ReceiveMalformed
SessUnparsable == SessEarly /\ OnMessageUnparsable

NextSession ==
  \/ SessRoomState \/ SessPlayers \/ SessGameStarted \/ SessNextTurn
  \/ SessGameOver \/ SessGameEnded \/ SessAutoChoice \/ SessUnknown
  \/ SessMalformed \/ SessUnparsable
  \/ Advance

SpecSession == InGame /\ [][NextSession]_vars

\* SpecBatch: a move, then animation batches that may carry a new board,
\* played to the end by the sequencer; no other frame arrives.  The click
\* and the batches come in the first BatchElapsed ms.
BatchEarly == now <= T0 + BatchElapsed
BatchMakeChoice == BatchEarly /\ MakeChoice(WideSent)
BatchGameEvents ==
  BatchEarly /\ ReceiveGameEvents(BoardEventsMsgs, MaxBatches, MaxBatchLen)
NextBatch ==
  \/ BatchMakeChoice \/ BatchGameEvents
  \/ AnimationFrame \/ PacingTimer \/ DwellTimer \/ Advance
SpecBatch == InGame /\ [][NextBatch]_vars

\* SpecPlay: batches without a board, cancelled or not by next_turn, error
\* or game_ended, and standalone explosion and spread frames, arriving in
\* the first PlayElapsed ms; the sequencer plays the batches to the end.
PlayEarly == now <= T0 + PlayElapsed
PlayGameEvents ==
  /\ PlayEarly
  /\ ReceiveGameEvents({m \in GameEventsMsgs : m.board = NULL},
                       GateBatches, MaxBatchLen)
PlayNextTurn == PlayEarly /\ GateNextTurn
PlayError == PlayEarly /\ ReceiveError
PlayGameEnded == PlayEarly /\ ReceiveGameEnded
PlayExplosion == PlayEarly /\ ReceiveExplosion
PlaySpread == PlayEarly /\ ReceiveSpread
NextPlay ==
  \/ PlayGameEvents \/ PlayNextTurn \/ PlayError \/ PlayGameEnded
  \/ PlayExplosion \/ PlaySpread
  \/ AnimationFrame \/ PacingTimer \/ DwellTimer \/ Advance
SpecPlay == InGame /\ [][NextPlay]_vars

\* SpecCmd: the four commands of the store on a connection that opens,
\* drops, reconnects and is left; the first CmdElapsed ms, at most CmdSent
\* frames.
CmdEarly == now <= T0 + CmdElapsed
CmdRoom == Len(sent) < CmdSent
CmdStartGame == CmdEarly /\ CmdRoom /\ startGame
CmdRestartGame == CmdEarly /\ CmdRoom /\ restartGame
CmdMakeChoice == CmdEarly /\ MakeChoice(CmdSent)
CmdExitGame == CmdEarly /\ CmdRoom /\ ExitGame
CmdOnClose == CmdEarly /\ OnClose
CmdNextTurn == CmdEarly /\ GateNextTurn
NextCmd ==
  \/ CmdStartGame \/ CmdRestartGame \/ CmdMakeChoice \/ CmdExitGame
  \/ OnOpen \/ CmdOnClose \/ ReconnectTimer \/ CmdNextTurn \/ Advance
SpecCmd == InGame /\ [][NextCmd]_vars

\* SpecRetry: a connection that keeps dropping, every reconnected socket
\* too; the user may return to the Game view or leave the room in the first
\* RetryElapsed ms.
RetryExitGame == now <= T0 + RetryElapsed /\ ExitGame
RetryOnError == now <= T0 + RetryElapsed /\ OnError
RetryGameMounted == now <= T0 + RetryElapsed /\ GameMounted
NextRetry ==
  \/ OnOpen \/ Drop \/ RetryOnError \/ ReconnectTimer \/ RetryExitGame
  \/ RetryGameMounted \/ Advance
SpecRetry == InGame /\ [][NextRetry]_vars

\* SpecPlayLive: SpecPlay in a visible page whose event loop keeps running:
\* a registered animation frame is run, a timer that is due is run, and
\* time passes.
SpecPlayLive ==
  /\ SpecPlay
  /\ WF_vars(AnimationFrame) /\ WF_vars(PacingTimer) /\ WF_vars(DwellTimer)
  /\ WF_vars(Advance)

\* ----------------------------------------------------------------- claims
\* The make_choice frames among the frames sent.
Moves(q) == SelectSeq(q, LAMBDA f : f.type = "make_choice")

\* C1: while moveInProgress is true no step sends a make_choice frame, so
\* between two make_choice frames the lock has been released by a message.
C1_LockBlocksSend == [][moveInProgress => Moves(sent') = Moves(sent)]_vars

\* A makeChoice call was rejected by the lock alone: a move is awaiting
\* confirmation and the debounce interval since it has elapsed.
C1_Witness ==
  /\ moveInProgress
  /\ Len(Moves(sent)) = 1
  /\ lastCall.made /\ lastCall.result = "blocked" /\ lastCall.locked
  /\ lastCall.at - lastMoveTime >= DebounceMs

\* C2: of any two makeChoice calls less than 300 ms apart the second sends
\* no frame: a step that sends a make_choice frame is not within 300 ms of
\* the previous call.
C2_AnyTwoCalls ==
  [][Len(Moves(sent')) > Len(Moves(sent))
       => ~(lastCall.made /\ now - lastCall.at < DebounceMs)]_vars

\* C2 as amended: a step that sends a make_choice frame is not within 300 ms
\* of the last call that sent one.
C2_AfterAccepted ==
  [][Len(Moves(sent')) > Len(Moves(sent))
       => now - lastCall.sentAt >= DebounceMs]_vars

\* A call was rejected by the debounce alone: the lock had been released
\* and the socket is open, less than 300 ms after the last accepted call.
C2_Witness ==
  /\ lastCall.made /\ lastCall.result = "blocked" /\ ~lastCall.locked
  /\ lastCall.sentAt > 0
  /\ lastCall.at - lastCall.sentAt < DebounceMs
  /\ releasedBy # NULL

\* This step is the handling of one of the messages M.
Handling(M) == \E data \in M : HandleWebSocketMessage(data)

\* C3: after every next_turn message is handled, moveInProgress and
\* processingEvents are false and queuedEvents is empty.
C3_NextTurnResets ==
  [][Handling(NextTurnMsgs)
       => ~moveInProgress' /\ ~processingEvents' /\ Len(queuedEvents') = 0]_vars

\* A next_turn arrived while a move awaited confirmation and a batch was
\* being played: it released the lock, discarded a queued event and left
\* the pacing timer of the batch pending.
C3_Witness ==
  /\ releasedBy = "next_turn" /\ ~moveInProgress /\ turn = 2
  /\ ~intact /\ ~processingEvents /\ Len(queuedEvents) = 0
  /\ \E k \in 1..Len(timers) : timers[k].kind = "pacing"

\* The messages of the four types the lock is said to be released by.
ReleasingMsgs ==
  NextTurnMsgs \cup GameStartedMsgs \cup ErrorMsgs \cup GameEndedMsgs

\* C4: every step in which moveInProgress goes from true to false is the
\* handling of a next_turn, game_started, error or game_ended message.
C4_OnlyFour ==
  [][moveInProgress /\ ~moveInProgress'
       => Handling(ReleasingMsgs)]_vars

\* This step is the handling of a game_events message without events.
HandlingEmptyBatch ==
  \E data \in GameEventsMsgs :
    /\ ~(data.events.has /\ data.events.n > 0)
    /\ HandleWebSocketMessage(data)

\* C4 as amended: such a step is the handling of one of those four message
\* types or of a game_events message whose batch is empty or absent.
C4_OnlyFive ==
  [][moveInProgress /\ ~moveInProgress'
       => \/ Handling(ReleasingMsgs)
          \/ HandlingEmptyBatch]_vars

\* A held lock was released by a game_events message.
C4_Witness ==
  /\ releasedBy = "game_events" /\ ~moveInProgress /\ Len(Moves(sent)) = 1

\* C5: after every game_started message is handled moveInProgress is false.
C5_GameStartedReleases ==
  [][Handling(GameStartedMsgs) => ~moveInProgress']_vars

\* C6: after every game_ended message is handled moveInProgress is false.
C6_GameEndedReleases ==
  [][Handling(GameEndedMsgs) => ~moveInProgress']_vars

\* C7: no timer callback (reconnect, pacing, dwell, animation frame) changes
\* moveInProgress from true to false.
C7_NoTimerRelease ==
  [][moveInProgress /\ ~moveInProgress'
       => ~(PacingTimer \/ DwellTimer \/ ReconnectTimer \/ AnimationFrame)]_vars

\* The pacing timer took the last event of a batch while the move sent
\* before was still awaiting confirmation, and its animation frame has run.
C7_Witness ==
  /\ moveInProgress
  /\ lastTake.taken /\ lastTake.id[2] = lastBatch /\ lastBatch > 1
  /\ lastMoveTime < lastTake.at
  /\ lastShown = lastTake.id

\* The ids of the events of a queue, in queue order.
Ids(q) == [i \in 1..Len(q) |-> q[i].id]
\* The events of the latest batch still to be displayed, in the order in
\* which they will be: those awaiting their animation frame, then those
\* still queued.
Pending ==
  SelectSeq(Ids(rafQueue) \o Ids(queuedEvents), LAMBDA id : id[1] = batches)
\* How many events of the latest batch the display has shown.
ShownOfBatch == IF lastShown[1] = batches THEN lastShown[2] ELSE 0

\* C8: while the latest game_events batch [E1..En] has had no queued event
\* discarded, the display has been written with E1..Ek in that order and
\* the events still to be written are exactly Ek+1..En in that order, so
\* each event is displayed once, in batch order; and the display holds only
\* the event written last.
C8_BatchOrdering ==
  /\ intact /\ batches > 0
       => /\ Len(Pending) = lastBatch - ShownOfBatch
          /\ \A i \in 1..Len(Pending) :
               Pending[i] = <<batches, ShownOfBatch + i>>
  /\ Len(explosions) > 0 => explosions[1].id = lastShown

\* A second batch of at least two events has been displayed to its last
\* event, which is on the display, with nothing left to play.
C8_Witness ==
  /\ intact /\ batches > 1 /\ lastBatch > 1
  /\ lastShown = <<batches, lastBatch>>
  /\ Len(queuedEvents) = 0 /\ Len(rafQueue) = 0
  /\ Len(explosions) = 1 /\ explosions[1].id = lastShown

\* C9: in every reachable state the animation display list holds at most
\* one element.
C9_AtMostOne == Len(explosions) <= 1

\* C9 as amended: a step that leaves more than one element on the display
\* it wrote is the handling of a game_started or next_turn message that
\* carries a board and an explosions list of more than one element; every
\* other write leaves at most one.
C9_OnlyServerLists ==
  [][Len(explosions') > 1 /\ explosions' # explosions
       => \E data \in GameStartedMsgs \cup NextTurnMsgs :
            /\ data.board # NULL
            /\ data.explosions.has /\ Len(data.explosions.val) > 1
            /\ HandleWebSocketMessage(data)]_vars

\* The display holds two elements after an event of a batch had been
\* displayed.
C9_Witness ==
  /\ Len(explosions) > 1
  /\ batches > 0 /\ lastShown[1] = batches

\* C10: the time between the sequencer taking one event of a batch and
\* taking the next event of that batch is at least 200 ms.
C10_PacingFloor ==
  [][/\ lastTake' # lastTake
     /\ lastTake.taken
     /\ lastTake'.id[1] = lastTake.id[1]
     => lastTake'.at - lastTake.at >= PacingFloorMs]_vars

\* This step handles a close event.
CloseHandled == lastClose'.n # lastClose.n
\* The close codes after which onclose does not reconnect.
NormalCodes == {1000, 1001}
\* The timer onclose schedules now.
ReconnectIn3s == [kind |-> "reconnect", due |-> now + ReconnectDelayMs]

\* C11: handling a close event with code 1000 or 1001 schedules no timer
\* and creates no socket.
C11_NoReconnectOnNormalClose ==
  [][CloseHandled /\ lastClose'.code \in NormalCodes
       => timers' = timers /\ sockets' = sockets]_vars

\* The connection of an active room was closed with code 1001 and time has
\* passed with nothing scheduled.
C11_Witness ==
  /\ lastClose.n = 1 /\ lastClose.code = 1001 /\ lastClose.room
  /\ roomCode # NULL /\ ws = "CLOSED" /\ timers = <<>> /\ now > T0

\* C12: handling a close event with another code while roomCode is set
\* schedules exactly one reconnection timer, due 3 s later; the timer runs
\* once, when it is due, and with roomCode still set it makes exactly one
\* connectWebSocket call.
C12_OneReconnect ==
  [][/\ CloseHandled /\ lastClose'.code \notin NormalCodes /\ roomCode # NULL
          => timers' = Append(timers, ReconnectIn3s)
     /\ ReconnectTimer /\ roomCode # NULL
          => /\ sockets' = sockets + 1 /\ ws' = "CONNECTING"
             /\ Len(timers') = Len(timers) - 1
             /\ \E k \in 1..Len(timers) :
                  /\ timers[k].kind = "reconnect" /\ timers[k].due = now
                  /\ timers' = RemoveAt(timers, k)]_vars

\* The only close event was abnormal, in an active room that was not left;
\* 3 s later its timer has run and the second socket is connecting.
C12_Witness ==
  /\ lastClose.n = 1 /\ lastClose.code = 1006 /\ lastClose.room
  /\ ~lastClose.cleared /\ roomCode # NULL
  /\ sockets = 2 /\ ws = "CONNECTING" /\ timers = <<>>
  /\ now >= T0 + ReconnectDelayMs

\* C13: a reconnection timer that runs after exitGame has cleared roomCode
\* opens no connection.
C13_ClearedCancels ==
  [][ReconnectTimer /\ lastClose.cleared => sockets' = sockets]_vars

\* C14: at most one socket created by the store is connecting or open.
C14_OneLiveSocket == liveSockets <= 1

\* A connecting or open socket was replaced by connectWebSocket: its close
\* event is still to come and the new socket is the only live one.
C14_Witness ==
  /\ sockets >= 2 /\ oldSockets >= 1 /\ liveSockets = 1
  /\ ws \in {"CONNECTING", "OPEN"}

\* C15: if the store holds a connection then roomCode is set.
C15_ConnectionHasRoom == ws # NULL => roomCode # NULL

C16_FullResync ==
  [][\A data \in RoomStateMsgs :
       HandleWebSocketMessage(data)
         => /\ players' = data.room.players
            /\ creator' = data.room.creator
            /\ gameStarted' = data.room.game_started
            /\ gameType' = IF data.room.game_type = NULL THEN "number_picker"
                           ELSE data.room.game_type]_vars

\* A room_state message replaced the creator, the started flag and the game
\* type the store held (alice, started, number_picker).
C16_Witness ==
  /\ gameType = "chain_reaction" /\ creator = "bob" /\ ~gameStarted
  /\ players = <<"alice", "bob">>

\* C17: after a room_state message without an ended-game sub-object
\* gameEnded is false, winner null and canRestart false, whatever they were
\* before.
C17_EndedReplaced ==
  [][\A data \in RoomStateMsgs :
       HandleWebSocketMessage(data) /\ ~data.game_ended.has
         => ~gameEnded' /\ winner' = NULL /\ ~canRestart']_vars

\* The session fields an error message is said to leave alone.
ErrorFrame ==
  <<players, creator, gameStarted, currentPlayer, choices, turn, round,
    board, winner, gameEnded, canRestart>>

\* C19: after an error message is handled moveInProgress and
\* processingEvents are false and queuedEvents is empty, and players,
\* creator, gameStarted, currentPlayer, choices, turn, round, board, winner,
\* gameEnded and canRestart are as before.
C19_ErrorClears ==
  [][Handling(ErrorMsgs)
       => /\ ~moveInProgress' /\ ~processingEvents' /\ Len(queuedEvents') = 0
          /\ UNCHANGED ErrorFrame]_vars

\* An error message released a held lock and discarded queued events of a
\* batch that was being played, during alice's first turn.
C19_Witness ==
  /\ releasedBy = "error" /\ ~moveInProgress /\ ~processingEvents
  /\ ~intact /\ Len(queuedEvents) = 0
  /\ turn = 1 /\ currentPlayer = "alice" /\ choices = <<-2, -1, 1, 2>>
  /\ \E k \in 1..Len(timers) : timers[k].kind = "pacing"

\* C20: handling a frame of an unhandled type, or an auto_choice frame,
\* leaves the session state, the sequencer state, the move gate and the
\* connection state unchanged.
C20_Ignored ==
  [][ignored' # ignored
       => UNCHANGED <<sessionVars, connVars, seqVars, lastMoveTime,
                      moveInProgress, sent>>]_vars

\* A frame of an unhandled type has been received on the open connection
\* of a game in which a next_turn frame was handled and an animation is on
\* display.
C20_Witness ==
  /\ ignored = "ping" /\ ws = "OPEN" /\ connectionStatus = "connected"
  /\ turn = 2 /\ Len(explosions) > 0


\* The part of the animation-frame queue that this step has added.
Registered == SubSeq(rafQueue', Len(rafQueue) + 1, Len(rafQueue'))

Drained ==
  /\ batches > 0 /\ Len(queuedEvents) = 0 /\ Len(rafQueue) = 0
  /\ ~processingEvents /\ Len(timers) = 0

\* C22: once the batch has fully drained, with no further message from the
\* server, the animation display is empty and the move lock is released.
C22_DrainReleases ==
  Drained => Len(explosions) = 0 /\ ~moveInProgress

\* The timers that clear the display after an event's dwell time.
DwellKinds == {"dwellExplosion", "dwellSpread"}
\* The dwell timer started last (0 if none is pending).  While the display
\* still holds the event the sequencer showed last, this is that event's
\* own dwell timer.
LastDwell ==
  LET D == {j \in 1..Len(timers) : timers[j].kind \in DwellKinds}
  IN IF D = {} THEN 0 ELSE CHOOSE j \in D : \A i \in D : i <= j

\* C23: a dwell timer never removes the display of a later event before
\* that event's own dwell time has elapsed: when a dwell timer empties a
\* display that holds the event shown last, it is that event's own timer.
C23_DwellHarmless ==
  [][\A k \in 1..Len(timers) :
       /\ IsNextTimer(k) /\ timers[k].kind \in DwellKinds
       /\ timers' = RemoveAt(timers, k)
       /\ Len(explosions) > 0 /\ explosions' = <<>>
       /\ explosions[1].id = lastShown
       => ~(LastDwell # k /\ timers[LastDwell].due > now)]_vars

\* This step runs the callback of a pacing timer.
PacingFires ==
  \E k \in 1..Len(timers) :
    /\ IsNextTimer(k) /\ timers[k].kind = "pacing"
    /\ lastTake' # lastTake

\* A game_events step counts the batch of its message if it has events,
\* and otherwise leaves the clock, the timers and the frame queue alone.
Counted(data) ==
  IF data.events.has /\ data.events.n > 0 THEN batches' = batches + 1
  ELSE now' = now /\ timers' = timers /\ rafQueue' = rafQueue

ShowsCancelled(cancelled) ==
  /\ explosions' # explosions /\ Len(explosions') > 0
  /\ explosions'[1].id \in cancelled

\* C25: a game_ended message sets gameEnded, clears gameStarted, takes
\* winner and canRestart from the payload and board and playerColors when
\* present, and leaves explosions and queuedEvents empty and
\* processingEvents false; and no event taken before the message is put on
\* the display after it.
C25_GameEndedClears ==
  [][/\ \A data \in GameEndedMsgs :
          HandleWebSocketMessage(data) =>
            /\ gameEnded' /\ ~gameStarted'
            /\ winner' = data.winner /\ canRestart' = data.can_restart
            /\ board' = IF data.board # NULL THEN data.board ELSE board
            /\ playerColors' = IF data.player_colors # NULL
                               THEN data.player_colors ELSE playerColors
            /\ Len(explosions') = 0 /\ Len(queuedEvents') = 0
            /\ ~processingEvents'
     /\ ~ShowsCancelled(voided.ended)]_vars

\* The frame makeChoice(2) sends.
Move2 == [type |-> "make_choice", action |-> 2]

\* C26: with local user alice connected, a game_started message for alice
\* leaves isMyTurn true, winner null and the message's choices, turn,
\* maxTurns and turnTime in the store; a makeChoice(2) call that the gate
\* lets through sends make_choice{action: 2} once and sets the lock; a
\* following next_turn message for bob releases the lock, replaces choices
\* with the message's and leaves isMyTurn false.
C26_Scenario ==
  [][/\ \A data \in GateGameStartedMsgs :
          HandleWebSocketMessage(data) =>
            /\ isMyTurn' /\ winner' = NULL
            /\ choices' = <<-2, -1, 1, 2>> /\ turn' = 1
            /\ maxTurns' = 5 /\ turnTime' = 10
     /\ (/\ lastCall' # lastCall /\ ws = "OPEN"
         /\ ~moveInProgress /\ now - lastMoveTime >= DebounceMs)
          => sent' = Append(sent, Move2) /\ moveInProgress'
     /\ \A data \in GateNextTurnMsgs :
          HandleWebSocketMessage(data) =>
            /\ ~moveInProgress' /\ choices' = <<-1, 1>> /\ ~isMyTurn'
            /\ turn' = 2 /\ winner' = winner]_vars

\* The scenario has run: game_started has put its board and explosion in
\* the store, one make_choice{action: 2} frame has been sent, and next_turn
\* has released the lock and handed the turn to bob.
C26_Witness ==
  /\ explosions = <<X1>> /\ winner = NULL
  /\ sent = <<Move2>> /\ releasedBy = "next_turn" /\ ~moveInProgress
  /\ turn = 2 /\ choices = <<-1, 1>> /\ ~isMyTurn

\* This step delivers a frame that fails to parse or that lacks a field its
\* handler reads.
DecodeFault ==
  \/ ignored' # ignored /\ ignored' = "unparsable"
  \/ Handling(MalformedMsgs)

\* C27: a frame that fails to parse, or that lacks the fields its handler
\* reads, changes no session, sequencer, move-gate or connection state.
C27_DecodeContained ==
  [][DecodeFault
       => UNCHANGED <<sessionVars, connVars, explosions, queuedEvents,
                      processingEvents, timers, rafQueue, moveInProgress,
                      lastMoveTime, sent>>]_vars

\* C28: after a next_turn or error message is handled, no event that was
\* enqueued or taken before it is put on the animation display, whether by
\* an animation-frame callback still pending or by a pacing timer.
C28_VoidsStale == [][~ShowsCancelled(voided.turn)]_vars

\* C29: in every reachable state at most one inter-event pacing timer is
\* outstanding.
C29_OnePacingTimer ==
  Cardinality({k \in 1..Len(timers) : timers[k].kind = "pacing"}) <= 1

\* C30: every explosion or spread the sequencer puts on the display is
\* eventually removed from it, and once the server's messages have stopped
\* the display eventually becomes empty and stays empty.
C30_NoStuckAnimation ==
  /\ Len(explosions) > 0 ~> Len(explosions) = 0
  /\ <>[](Len(explosions) = 0)

\* The display holds an event that the sequencer put there (the elements of
\* standalone frames and of the server's lists belong to no batch).
ShowsBatchEvent == Len(explosions) > 0 /\ explosions[1].id[1] > 0

\* C30 as amended: every explosion or spread the sequencer puts on the
\* display is eventually removed from it for good: once the server's
\* messages have stopped, the display eventually holds no event of a batch
\* and never does again.
C30_BatchEventsRemoved == <>[](~ShowsBatchEvent)

\* The only event of a batch was shown and has been removed by its dwell
\* timer: nothing is queued, registered or scheduled any more.
C30_Witness ==
  /\ lastShown = <<1, 1>> /\ lastBatch = 1 /\ batches = 1 /\ intact
  /\ Len(explosions) = 0 /\ Len(timers) = 0 /\ Len(rafQueue) = 0
  /\ now - lastTake.at >= SpreadDwellMs

\* The sequencer is idle: nothing is queued and no event is being paced.
Idle == Len(queuedEvents) = 0 /\ ~processingEvents

\* C31: once the server's messages have stopped and the timers keep
\* firing, the sequencer eventually is idle (queuedEvents empty and
\* processingEvents false) and stays idle.
C31_PlaybackTerminates == <>[]Idle

\* A batch of two events was played to its end, the second one taken by the
\* pacing timer, and the sequencer is idle with no timer left.
C31_Witness ==
  /\ Idle /\ batches = 1 /\ lastBatch = 2 /\ intact
  /\ lastTake.taken /\ lastTake.id = <<1, 2>> /\ lastTake.at > T0
  /\ lastShown = <<1, 2>> /\ Len(timers) = 0 /\ Len(rafQueue) = 0

\* The frame this step hands to ws.send, if it sends one.
Sends(type) ==
  /\ Len(sent') = Len(sent) + 1
  /\ sent'[Len(sent')].type = type

\* C32: a frame is sent only while the current socket is open; a makeChoice
\* call that finds no open socket sends nothing and leaves moveInProgress
\* and lastMoveTime as they were; the lock is taken (and lastMoveTime set)
\* in exactly the steps that send a make_choice frame.
C32_OpenSocketOnly ==
  [][/\ sent' # sent => ws = "OPEN"
     /\ (lastCall' # lastCall /\ lastCall'.result = "nosocket")
          => UNCHANGED <<sent, moveInProgress, lastMoveTime>>
     /\ (~moveInProgress /\ moveInProgress') <=> Sends("make_choice")
     /\ lastMoveTime' # lastMoveTime => Sends("make_choice")]_vars

\* After the connection dropped, a click found no open socket: nothing was
\* sent, the lock is free and lastMoveTime is still the initial one.
C32_Witness ==
  /\ ws \in {"CLOSED", "CONNECTING"}
  /\ lastCall.made /\ lastCall.result = "nosocket" /\ lastCall.at = now
  /\ Len(sent) = 0 /\ ~moveInProgress /\ lastMoveTime = 0

\* The last close event was abnormal, in a room that has not been left, and
\* the store's socket is still the closed one.
DroppedInRoom ==
  /\ ws = "CLOSED" /\ roomCode # NULL
  /\ lastClose.n > 0 /\ lastClose.room /\ ~lastClose.cleared
  /\ lastClose.code \notin NormalCodes

\* C33: however many connections have already been made, after an abnormal
\* close in a room that is not left a reconnection is pending until it is
\* made, and a pending reconnection is never due later than 3 s from now:
\* the delay does not grow with the number of attempts.
C33_NoRetryCap ==
  /\ DroppedInRoom => \E k \in 1..Len(timers) : timers[k].kind = "reconnect"
  /\ \A k \in 1..Len(timers) :
       timers[k].kind = "reconnect" => timers[k].due <= now + ReconnectDelayMs

\* The reconnected socket has dropped as well: the second close has just
\* scheduled the next attempt, 3 s from now like the first.
C33_Witness ==
  /\ DroppedInRoom /\ sockets >= 2 /\ lastClose.n >= 2
  /\ now >= T0 + ReconnectDelayMs
  /\ Len(timers) = 1 /\ timers[1] = ReconnectIn3s

\* C34: every next_turn and every game_started message restarts the turn
\* countdown (the timer key changes), also when it carries the turn number
\* the store already holds.
C34_CountdownRestarts ==
  [][/\ \A data \in GateNextTurnMsgs :
          HandleWebSocketMessage(data) => timerKeyChanges
     /\ \A data \in GateGameStartedMsgs :
          HandleWebSocketMessage(data) => timerKeyChanges]_vars

\* This step handles the close event of a socket the store had replaced or
\* exited.
ReplacedCloses == oldSockets' = oldSockets - 1

\* C35: the close event of a connection that connectWebSocket has replaced
\* schedules no reconnection.
C35_ReplacedNeverReconnects ==
  [][ReplacedCloses /\ roomCode # NULL => timers' = timers]_vars

\* C36: connectionStatus is 'connected' only while the store's current
\* socket is open, and the close event of a replaced or exited socket
\* leaves connectionStatus as it is.
C36_StatusOfCurrentSocket ==
  [][/\ connectionStatus' = "connected" => ws' = "OPEN"
     /\ ReplacedCloses => connectionStatus' = connectionStatus]_vars

\* C37: a reconnection timer scheduled in a room that has been left since
\* opens no connection for the room entered afterwards: it leaves the
\* store's socket and the sockets it has closed as they are.
C37_TimerOfItsOwnRoom ==
  [][ReconnectTimer /\ lastClose.cleared /\ roomCode # NULL
       => ws' = ws /\ oldSockets' = oldSockets /\ liveSockets' = liveSockets]_vars

\* C38: after exitGame, moveInProgress is false, queuedEvents is empty,
\* processingEvents is false and the display is empty.
C38_ExitResetsGateAndSequencer ==
  [][ExitGame => /\ ~moveInProgress' /\ Len(queuedEvents') = 0
                 /\ ~processingEvents' /\ Len(explosions') = 0]_vars

\* A pacing timer is pending.
PacingPending == \E k \in 1..Len(timers) : timers[k].kind = "pacing"

\* C39: between handlers processingEvents is true only while a pacing timer
\* is pending, and events are queued only while one is pending: the flag is
\* reset, and the queued events of a later batch are taken, by that timer.
C39_FlagHasTimer ==
  (processingEvents \/ Len(queuedEvents) > 0) => PacingPending

\* A second batch arrived while the first was playing: its events replaced
\* the queue, none of them is taken yet, and the pacing timer of the first
\* batch is pending to take them.
C39_Witness ==
  /\ processingEvents /\ PacingPending /\ batches = 2 /\ intact
  /\ lastTake.taken /\ lastTake.id[1] = 1
  /\ Len(queuedEvents) > 0 /\ queuedEvents[1].id = <<2, 1>>
====
